---- MODULE Spec2Model ----
(***************************************************************************)
(* Model of app.py, the YouTube-to-quiz Streamlit script.                  *)
(*                                                                         *)
(* A Streamlit script is executed from top to bottom once per user         *)
(* interaction.  What survives between two executions is st.session_state  *)
(* (the keys 'quiz_data' and 'user_answers'), the value of the text input  *)
(* and the stored value of every widget drawn in the last execution (the   *)
(* radios keyed q_0, q_1, ...).  Each action below is one execution of the *)
(* whole script for one kind of interaction.                               *)
(***************************************************************************)
EXTENDS Integers, Sequences, FiniteSets, TLC

VARIABLES
    video_url,       \* value of the URL text input, a sequence of characters
    session_state,   \* st.session_state: function from key to value
    widgets,         \* stored state of the radios drawn in the last run
    video_id,        \* get_video_id(video_url) of the last run, or NoMatch
    trace,           \* pipeline steps of the last run, in execution order
    messages,        \* st.error / st.success messages shown by the last run
    rendered,        \* the last run drew the quiz form
    result,          \* what the scoring block displayed in the last run
    raised,          \* the last run ended with an uncaught exception
    prior_len,       \* history: length of the quiz held when the last run began
    resubmitted      \* history: the last run and the one before it were submits
                     \* carrying the same selections

vars == <<video_url, session_state, widgets, video_id, trace, messages,
          rendered, result, raised, prior_len, resubmitted>>

-----------------------------------------------------------------------------
(* Bounds of the model *)

\* longest quiz the modelled generative service returns
MaxQuestions == 2

\* longest URL of the extractor's test set, counted in chunks
MaxChunks == 4

-----------------------------------------------------------------------------
(* Python values *)

\* Python's None where the other values are strings
None == "None"

\* get_video_id's None, where the other values are character sequences
NoMatch == <<>>

\* {} (a dict with no key)
EmptyDict == [k \in {} |-> None]

Range(s) == {s[k] : k \in DOMAIN s}

-----------------------------------------------------------------------------
(* ID Extractor: regex (?:v=|\/)([0-9A-Za-z_-]{11}).* under re.search *)

IdLen == 11

IdChars ==
    {"0","1","2","3","4","5","6","7","8","9",
     "A","B","C","D","E","F","G","H","I","J","K","L","M",
     "N","O","P","Q","R","S","T","U","V","W","X","Y","Z",
     "a","b","c","d","e","f","g","h","i","j","k","l","m",
     "n","o","p","q","r","s","t","u","v","w","x","y","z",
     "_","-"}

\* length of the (?:v=|\/) prefix matched at position p, 0 when neither does
PrefixLen(url, p) ==
    IF url[p] = "/" THEN 1
    ELSE IF url[p] = "v" /\ p + 1 <= Len(url) /\ url[p + 1] = "=" THEN 2
    ELSE 0

\* the regex matches with its first character at position p
MatchesAt(url, p) ==
    LET pre == PrefixLen(url, p) IN
    /\ pre > 0
    /\ p + pre + IdLen - 1 <= Len(url)
    /\ \A k \in 0..(IdLen - 1) : url[p + pre + k] \in IdChars

\* group(1) of the match that starts at p
GroupAt(url, p) ==
    SubSeq(url, p + PrefixLen(url, p), p + PrefixLen(url, p) + IdLen - 1)

RECURSIVE SearchFrom(_, _)
\* re.search scans left to right and stops at the first position that matches;
\* 0 when no position does
SearchFrom(url, p) ==
    IF p > Len(url) THEN 0
    ELSE IF MatchesAt(url, p) THEN p
    ELSE SearchFrom(url, p + 1)

\* a plausible slip: re.match instead of re.search (anchored at the start)
get_video_id_anchored(url) ==
    IF Len(url) > 0 /\ MatchesAt(url, 1) THEN GroupAt(url, 1) ELSE NoMatch

get_video_id(url) ==
    LET first == SearchFrom(url, 1) IN
    IF first = 0 THEN NoMatch ELSE GroupAt(url, first)

-----------------------------------------------------------------------------
(* Transcript Fetcher *)

RECURSIVE Join(_, _)
\* sep.join(strs)
Join(strs, sep) ==
    IF Len(strs) = 0 THEN ""
    ELSE IF Len(strs) = 1 THEN strs[1]
    ELSE strs[1] \o sep \o Join(Tail(strs), sep)

\* what YouTubeTranscriptApi.get_transcript can do: raise, or return a list of
\* caption fragments (possibly empty)
FetchOutcomes ==
    { [ok |-> FALSE, fragments |-> <<>>],
      [ok |-> TRUE,  fragments |-> <<>>],
      [ok |-> TRUE,  fragments |-> <<[text |-> "hello"], [text |-> "world"]>>] }

\* value: the returned text or None; raised: an exception left the function
get_transcript(fetch) ==
    IF fetch.ok
    THEN [value  |-> Join([k \in DOMAIN fetch.fragments |-> fetch.fragments[k].text], " "),
          raised |-> FALSE]
    ELSE [value |-> None, raised |-> FALSE]

\* Python truthiness of a transcript: None and "" are falsy
Truthy(transcript) == transcript # None /\ transcript # ""

-----------------------------------------------------------------------------
(* Quiz Generator *)

OptionsABCD == <<"a", "b", "c", "d">>

\* the objects the generative service puts in its JSON list: the code accepts
\* whatever json.loads returns, so not all of them satisfy the prompt's contract
Items ==
    { [question |-> "q1", options |-> OptionsABCD, answer |-> "a"],
      [question |-> "q2", options |-> <<"b", "c", "d", "e">>, answer |-> "z"],
      [question |-> "q3", options |-> OptionsABCD, answer |-> None] }

\* JSON lists of at most MaxQuestions objects
Quizzes == UNION { [1..n -> Items] : n \in 0..MaxQuestions }

\* what the generative service can do: the call (or reading response.text)
\* raises, the text is not JSON, or the text is JSON encoding a list
ModelReplies ==
    { [kind |-> "call_error", value |-> <<>>],
      [kind |-> "not_json",   value |-> <<>>] }
    \cup { [kind |-> "json", value |-> q] : q \in Quizzes }

\* a plausible slip: no try/except around the call and the parse
generate_quiz_unguarded(transcript_text, reply) ==
    IF reply.kind = "json"
    THEN [value |-> reply.value, error |-> FALSE, raised |-> FALSE]
    ELSE [value |-> <<>>, error |-> FALSE, raised |-> TRUE]

\* value: the returned list; error: st.error was called; raised: an exception
\* left the function
generate_quiz(transcript_text, reply) ==
    IF reply.kind = "json"
    THEN [value |-> reply.value, error |-> FALSE, raised |-> FALSE]
    ELSE [value |-> <<>>, error |-> TRUE, raised |-> FALSE]

-----------------------------------------------------------------------------
(* Main UI, step 1: URL input and the Generate Quiz button *)

\* a plausible slip: the transcript check is dropped
ShouldGenerateAlways(transcript) == TRUE

\* `if transcript:`
ShouldGenerate(transcript) == Truthy(transcript)

\* a plausible slip: the reset of user_answers is left out
StoreQuizOnly(ss, quiz) ==
    [k \in DOMAIN ss \cup {"quiz_data"} |->
        IF k = "quiz_data" THEN quiz ELSE ss[k]]

\* session_state['quiz_data'] = ...; session_state['user_answers'] = {}
StoreQuiz(ss, quiz) ==
    [k \in DOMAIN ss \cup {"quiz_data", "user_answers"} |->
        IF k = "quiz_data" THEN quiz
        ELSE IF k = "user_answers" THEN EmptyDict
        ELSE ss[k]]

\* The handler of the button, entered when st.button returned True.  The
\* trace records each call and, after it, what the called service did.
ButtonBlock(ss, fetch, reply) ==
    LET t  == get_transcript(fetch)
        t1 == <<"get_transcript", IF fetch.ok THEN "fetch_ok" ELSE "fetch_error">>
    IN
    IF t.raised
    THEN [ss |-> ss, trace |-> t1, messages |-> {}, raised |-> TRUE]
    ELSE LET t2 == Append(t1, IF Truthy(t.value) THEN "transcript" ELSE "no_transcript")
         IN
         IF ShouldGenerate(t.value)
         THEN LET g  == generate_quiz(t.value, reply)
                  t3 == t2 \o <<"generate_content", reply.kind>>
              IN
              IF g.raised
              THEN [ss |-> ss, trace |-> t3, messages |-> {}, raised |-> TRUE]
              ELSE [ss |-> StoreQuiz(ss, g.value),
                    trace |-> t3,
                    messages |-> IF g.error THEN {"Error generating quiz"} ELSE {},
                    raised |-> FALSE]
         ELSE [ss |-> ss,
               trace |-> t2,
               messages |-> {"Could not retrieve transcript"},
               raised |-> FALSE]

\* lines 89-103: `if video_url:` ... ; click is st.button's return value
GenerateBlock(ss, url, click, fetch, reply) ==
    IF Len(url) = 0
    THEN [ss |-> ss, video_id |-> NoMatch, trace |-> <<>>, messages |-> {},
          raised |-> FALSE]
    ELSE LET id == get_video_id(url) IN
    IF id = NoMatch
    THEN [ss |-> ss, video_id |-> NoMatch, trace |-> <<"get_video_id", "no_video_id">>,
          messages |-> {}, raised |-> FALSE]
    ELSE IF ~click
    THEN [ss |-> ss, video_id |-> id,
          trace |-> <<"get_video_id", "video_id">>, messages |-> {}, raised |-> FALSE]
    ELSE LET b == ButtonBlock(ss, fetch, reply) IN
         [ss |-> b.ss, video_id |-> id,
          trace |-> <<"get_video_id", "video_id", "clicked">> \o b.trace,
          messages |-> b.messages, raised |-> b.raised]

-----------------------------------------------------------------------------
(* Main UI, step 2: the quiz form and the scoring block *)

\* indices enumerate() yields for a list
Indices(quiz) == 0..(Len(quiz) - 1)

\* `'quiz_data' in st.session_state and st.session_state['quiz_data']`
QuizLoaded(ss) == "quiz_data" \in DOMAIN ss /\ Len(ss["quiz_data"]) > 0

\* Return value of st.radio(label, options, key=f"q_{i}", index=None).  In the
\* run a form submit starts, it is the selection the browser sent (sel).  In
\* any other run it is the value stored for the widget, which Streamlit keeps
\* as long as a widget of the same identity (key, label, options) was drawn in
\* the previous run; a widget drawn for the first time has the default, and
\* index=None makes the default None.
radio(w, i, options, submit, sel) ==
    IF submit THEN sel[i]
    ELSE IF i \in DOMAIN w /\ w[i].options = options THEN w[i].value
    ELSE None

\* stored widget state after the loop has drawn the radios of every question
DrawnWidgets(quiz, w, submit, sel) ==
    [i \in Indices(quiz) |->
        [options |-> quiz[i + 1].options,
         value   |-> radio(w, i, quiz[i + 1].options, submit, sel)]]

\* the dict after `st.session_state['user_answers'][i] = choice` for every i
RecordChoices(answers, quiz, w, submit, sel) ==
    [k \in DOMAIN answers \cup Indices(quiz) |->
        IF k \in Indices(quiz)
        THEN radio(w, k, quiz[k + 1].options, submit, sel)
        ELSE answers[k]]

\* dict.get(i)
Get(answers, i) == IF i \in DOMAIN answers THEN answers[i] ELSE None

\* a plausible slip: `if user_choice:` (any selection counts)
VerdictAnySelection(user_choice, correct_answer) == user_choice # None

\* `user_choice == correct_answer`
Verdict(user_choice, correct_answer) == user_choice = correct_answer

\* a plausible slip: the scoring block reads the answers recorded by the
\* previous run instead of those the loop has just recorded
ScoredAnswersStale(before, after) == before

\* the mapping the scoring block reads: session_state['user_answers'] as the
\* loop above it left it
ScoredAnswers(before, after) == after

NoResult == [scored |-> FALSE, correct_count |-> 0, total |-> 0,
             verdicts |-> <<>>, choices |-> <<>>]

\* lines 126-139
Score(quiz, answers) ==
    LET verdicts == [i \in 1..Len(quiz) |->
                        Verdict(Get(answers, i - 1), quiz[i].answer)]
    IN [scored        |-> TRUE,
        correct_count |-> Cardinality({i \in 1..Len(quiz) : verdicts[i]}),
        total         |-> Len(quiz),
        verdicts      |-> verdicts,
        choices       |-> [i \in 1..Len(quiz) |-> Get(answers, i - 1)]]

\* lines 106-139; submit is st.form_submit_button's return value
DisplayBlock(ss, w, submit, sel) ==
    IF ~QuizLoaded(ss)
    THEN [ss |-> ss, widgets |-> EmptyDict, rendered |-> FALSE,
          result |-> NoResult, messages |-> {}, raised |-> FALSE]
    ELSE IF "user_answers" \notin DOMAIN ss
    THEN \* KeyError at line 121, after the first radio was drawn
         [ss |-> ss,
          widgets |-> [i \in {0} |-> DrawnWidgets(ss["quiz_data"], w, submit, sel)[i]],
          rendered |-> FALSE, result |-> NoResult, messages |-> {}, raised |-> TRUE]
    ELSE LET quiz    == ss["quiz_data"]
             answers == RecordChoices(ss["user_answers"], quiz, w, submit, sel)
         IN [ss       |-> [ss EXCEPT !["user_answers"] = answers],
             widgets  |-> DrawnWidgets(quiz, w, submit, sel),
             rendered |-> TRUE,
             result   |-> IF submit
                          THEN Score(quiz, ScoredAnswers(ss["user_answers"], answers))
                          ELSE NoResult,
             messages |-> IF submit THEN {"Quiz Submitted!"} ELSE {},
             raised   |-> FALSE]

-----------------------------------------------------------------------------
(* One execution of the script *)

Script(url, click, fetch, reply, submit, sel) ==
    \E g \in {GenerateBlock(session_state, url, click, fetch, reply)} :
    \E d \in {DisplayBlock(g.ss, widgets, submit, sel)} :
       /\ video_url' = url
       /\ video_id' = g.video_id
       /\ trace' = g.trace
       /\ IF g.raised
          THEN \* the exception ends the run before the form is reached
               /\ session_state' = g.ss
               /\ widgets' = EmptyDict
               /\ rendered' = FALSE
               /\ result' = NoResult
               /\ messages' = g.messages
               /\ raised' = TRUE
          ELSE /\ session_state' = d.ss
               /\ widgets' = d.widgets
               /\ rendered' = d.rendered
               /\ result' = d.result
               /\ messages' = g.messages \cup d.messages
               /\ raised' = d.raised
       /\ prior_len' = IF QuizLoaded(session_state)
                       THEN Len(session_state["quiz_data"]) ELSE 0
       /\ resubmitted' = (/\ submit
                          /\ result.scored
                          /\ DOMAIN sel = DOMAIN widgets
                          /\ \A i \in DOMAIN sel : sel[i] = widgets[i].value)

NoFetch == [ok |-> FALSE, fragments |-> <<>>]
NoReply == [kind |-> "call_error", value |-> <<>>]

\* The replies of the generative service to try after a fetch: all of them
\* when the captions service delivered text to send, and otherwise, where
\* the reply is not meant to be asked for, the failing one alone.
RepliesTo(fetch) ==
    IF fetch.ok /\ Len(fetch.fragments) > 0 THEN ModelReplies ELSE {NoReply}

\* URLs the user enters in the running session: nothing, a URL without an
\* identifier, a watch URL
EmptyUrl == <<>>
BadUrl == <<"/", "x">>
WatchUrl == <<"v", "=", "d", "Q", "w", "4", "w", "9", "W", "g", "X", "c", "Q">>
Urls == {EmptyUrl, BadUrl, WatchUrl}

RECURSIVE SelectionsFrom(_)
\* selections for the first n radios: per question the stored value or one of
\* the options (a radio cannot be cleared once something is selected)
SelectionsFrom(n) ==
    IF n = 0 THEN {EmptyDict}
    ELSE { [k \in 0..(n - 1) |-> IF k = n - 1 THEN c ELSE s[k]] :
              s \in SelectionsFrom(n - 1),
              c \in {widgets[n - 1].value} \cup Range(widgets[n - 1].options) }

\* selections a submit of the drawn form can carry
Selections == SelectionsFrom(Cardinality(DOMAIN widgets))

Init ==
    /\ video_url = EmptyUrl
    /\ session_state = EmptyDict
    /\ widgets = EmptyDict
    /\ video_id = NoMatch
    /\ trace = <<>>
    /\ messages = {}
    /\ rendered = FALSE
    /\ result = NoResult
    /\ raised = FALSE
    /\ prior_len = 0
    /\ resubmitted = FALSE

\* the user commits a new value of the URL text input
EnterUrl(u) ==
    /\ u # video_url
    /\ Script(u, FALSE, NoFetch, NoReply, FALSE, EmptyDict)

\* the user clicks Generate Quiz, which the last run drew
ClickGenerate(fetch, reply) ==
    /\ video_id # NoMatch
    /\ Script(video_url, TRUE, fetch, reply, FALSE, EmptyDict)

\* the user clicks Submit Answers in the form the last run drew
SubmitAnswers(sel) ==
    /\ rendered
    /\ Script(video_url, FALSE, NoFetch, NoReply, TRUE, sel)

Next ==
    \/ \E u \in Urls : EnterUrl(u)
    \/ \E fetch \in FetchOutcomes :
          \E reply \in RepliesTo(fetch) : ClickGenerate(fetch, reply)
    \/ \E sel \in Selections : SubmitAnswers(sel)

Spec == Init /\ [][Next]_vars

-----------------------------------------------------------------------------
(* The ID Extractor on its own: every URL of a bounded set is typed into the *)
(* text input of a fresh session, and the run that follows extracts from it. *)

Chunks ==
    { <<"/">>,
      <<"v", "=">>,
      <<"?">>,
      <<"a", "b", "c">>,
      <<"d", "Q", "w", "4", "w", "9", "W", "g", "X", "c", "Q">>,
      <<"y", "o", "u", "t", "u", "b", "e", "k", "i", "d", "s">> }

RECURSIVE Flatten(_)
Flatten(cs) == IF Len(cs) = 0 THEN <<>> ELSE Head(cs) \o Flatten(Tail(cs))

TestUrls == { Flatten(cs) : cs \in UNION { [1..n -> Chunks] : n \in 0..MaxChunks } }

InitId ==
    /\ video_url \in TestUrls
    /\ session_state = EmptyDict
    /\ widgets = EmptyDict
    /\ video_id = NoMatch
    /\ trace = <<"typed">>
    /\ messages = {}
    /\ rendered = FALSE
    /\ result = NoResult
    /\ raised = FALSE
    /\ prior_len = 0
    /\ resubmitted = FALSE

\* the run started by committing the typed URL
RunTyped ==
    /\ trace = <<"typed">>
    /\ Script(video_url, FALSE, NoFetch, NoReply, FALSE, EmptyDict)

NextId == RunTyped

SpecId == InitId /\ [][NextId]_vars

-----------------------------------------------------------------------------
(* Properties *)

Has(e) == e \in Range(trace)

HeldQuiz == IF QuizLoaded(session_state) THEN session_state["quiz_data"] ELSE <<>>

HeldAnswers ==
    IF "user_answers" \in DOMAIN session_state
    THEN session_state["user_answers"] ELSE EmptyDict

\* C1: on every submit of a loaded Quiz the displayed count is the number of
\* indices whose recorded selection equals the item's answer, the displayed
\* total is the length of the Quiz, and item i is flagged correct exactly
\* when its recorded selection equals its answer.
C1_ScoreIsExactMatchCount ==
    result.scored =>
        /\ QuizLoaded(session_state)
        /\ result.total = Len(HeldQuiz)
        /\ result.correct_count =
              Cardinality({i \in Indices(HeldQuiz) :
                              i \in DOMAIN HeldAnswers
                              /\ HeldAnswers[i] = HeldQuiz[i + 1].answer})
        /\ DOMAIN result.verdicts = 1..Len(HeldQuiz)
        /\ \A i \in Indices(HeldQuiz) :
              /\ i \in DOMAIN HeldAnswers
              /\ result.verdicts[i + 1] <=> (HeldAnswers[i] = HeldQuiz[i + 1].answer)
              /\ result.choices[i + 1] = HeldAnswers[i]

\* a submit scored with one item right and another, answered, wrong
C1_Witness ==
    /\ result.scored
    /\ result.total = 2
    /\ result.correct_count = 1
    /\ \E i \in 1..2 : ~result.verdicts[i] /\ result.choices[i] # None

\* C2: a submit that carries the selections of the submit just before it
\* displays the same score and verdicts and leaves session_state as it was;
\* and no submit changes the Quiz.
C2_ResubmitSameResult ==
    [][ /\ (result'.scored =>
               /\ QuizLoaded(session_state)
               /\ session_state'["quiz_data"] = session_state["quiz_data"])
        /\ (resubmitted' =>
               /\ result' = result
               /\ session_state' = session_state) ]_vars

\* the same answers, one of them right, were submitted twice in a row
C2_Witness ==
    /\ resubmitted
    /\ result.scored
    /\ result.correct_count >= 1
    /\ \E i \in DOMAIN result.verdicts : ~result.verdicts[i]

\* C3 as claimed: a generation request that fails, at the transcript or at the
\* generator, leaves the session without a quiz and draws no quiz form.
C3_FailedRequestLeavesNoQuiz ==
    (Has("clicked") /\ ~Has("json")) =>
        /\ ~QuizLoaded(session_state)
        /\ ~rendered

\* C4 as claimed: every item of the Quiz in session_state has exactly 4
\* options and an answer that is one of them.
C4_ItemsWellFormed ==
    \A k \in DOMAIN HeldQuiz :
        /\ Len(HeldQuiz[k].options) = 4
        /\ HeldQuiz[k].answer \in Range(HeldQuiz[k].options)

\* C5: when the generative call fails or its reply is not JSON, the run does
\* not raise, shows the generator's error, stores an empty Quiz, draws no form
\* and scores nothing; and from a session without a quiz, nothing is scored
\* and a quiz appears only by a run whose generation got a JSON reply.
C5_GenerationFailure ==
    /\ []((Has("call_error") \/ Has("not_json")) =>
            /\ ~raised
            /\ "Error generating quiz" \in messages
            /\ "quiz_data" \in DOMAIN session_state
            /\ session_state["quiz_data"] = <<>>
            /\ ~rendered
            /\ ~result.scored)
    /\ [][ ~QuizLoaded(session_state) =>
              /\ ~result'.scored
              /\ (QuizLoaded(session_state') => (Has("generate_content") /\ Has("json"))') ]_vars

\* a generation failed in a session that held a quiz before the request
C5_Witness ==
    /\ Has("not_json")
    /\ prior_len > 0
    /\ session_state["quiz_data"] = <<>>

PipelineErrors == {"Could not retrieve transcript", "Error generating quiz"}

\* C6: the generative service is called only after, in this order, the
\* extractor returned an identifier, the button was clicked and the fetcher
\* returned a transcript; a run on a URL without identifier fetches nothing,
\* generates nothing and shows no error; a fetch that raises is turned into
\* the absence result, its message is shown and the generator is not called.
C6_GeneratorOnlyAfterTranscript ==
    /\ \A k \in DOMAIN trace :
          trace[k] = "generate_content" =>
              \E a, b, c \in 1..(k - 1) :
                  /\ a < b /\ b < c
                  /\ trace[a] = "video_id"
                  /\ trace[b] = "clicked"
                  /\ trace[c] = "transcript"
    /\ (Has("no_video_id") \/ trace = <<>>) =>
          /\ ~Has("get_transcript")
          /\ ~Has("generate_content")
          /\ messages \cap PipelineErrors = {}
    /\ Has("fetch_error") =>
          /\ ~raised
          /\ Has("no_transcript")
          /\ "Could not retrieve transcript" \in messages
          /\ ~Has("generate_content")

\* the generative service was called in the last run
C6_Witness == Has("generate_content") /\ Has("fetch_ok") /\ ~raised

\* C8 as claimed: right after the run of a generation request that stored a
\* new Quiz, every recorded answer is unset.
C8_AnswersUnsetAfterGeneration ==
    (Has("json") /\ QuizLoaded(session_state)) =>
        \A i \in DOMAIN HeldAnswers : HeldAnswers[i] = None

\* C9 as claimed: a question without selection is never flagged correct, and
\* the count lies between 0 and the number of answered questions.
C9_UnsetNeverCorrect ==
    result.scored =>
        /\ \A i \in DOMAIN result.verdicts :
              result.choices[i] = None => ~result.verdicts[i]
        /\ result.correct_count >= 0
        /\ result.correct_count <=
              Cardinality({i \in DOMAIN result.choices : result.choices[i] # None})
        /\ result.correct_count <= result.total

\* C10: no run ends in an exception; whenever session_state holds a non-empty
\* Quiz it holds user_answers too; and after a run that drew the form the keys
\* of user_answers are exactly the indices of the Quiz.
C10_AnswersKeyedByQuiz ==
    /\ ~raised
    /\ QuizLoaded(session_state) => "user_answers" \in DOMAIN session_state
    /\ rendered =>
          /\ QuizLoaded(session_state)
          /\ DOMAIN HeldAnswers = Indices(HeldQuiz)

\* the form was drawn for a quiz shorter than the one it replaced
C10_Witness ==
    /\ rendered
    /\ Has("json")
    /\ prior_len > Len(HeldQuiz)
    /\ DOMAIN HeldAnswers = Indices(HeldQuiz)

-----------------------------------------------------------------------------
(* Properties of the ID Extractor, under SpecId *)

\* q is the first position of a run of IdLen identifier characters that
\* directly follows "v=" or "/"
TokenAt(url, q) ==
    /\ q + IdLen - 1 <= Len(url)
    /\ \A k \in q..(q + IdLen - 1) : url[k] \in IdChars
    /\ \/ q > 1 /\ url[q - 1] = "/"
       \/ q > 2 /\ url[q - 2] = "v" /\ url[q - 1] = "="

TokenStarts(url) == {q \in 1..Len(url) : TokenAt(url, q)}

Token(url, q) == SubSeq(url, q, q + IdLen - 1)

Extracted == trace # <<"typed">>

\* C7 as claimed: the extractor returns every token of the URL that follows
\* "v=" or "/", and no-match when there is none.
C7_ReturnsEveryToken ==
    Extracted =>
        /\ \A q \in TokenStarts(video_url) : video_id = Token(video_url, q)
        /\ TokenStarts(video_url) = {} => video_id = NoMatch

\* C7 amended: the extractor returns the leftmost such token, and no-match
\* when there is none; the run never raises.
C7_ReturnsLeftmostToken ==
    Extracted =>
        /\ ~raised
        /\ IF TokenStarts(video_url) = {}
           THEN video_id = NoMatch
           ELSE \E q \in TokenStarts(video_url) :
                   /\ \A r \in TokenStarts(video_url) : q <= r
                   /\ video_id = Token(video_url, q)

\* a URL with two different tokens, the right one following "v="
C7_Witness ==
    /\ Extracted
    /\ \E q, r \in TokenStarts(video_url) :
          /\ q < r
          /\ video_url[r - 1] = "="
          /\ Token(video_url, q) # Token(video_url, r)
          /\ video_id = Token(video_url, q)

====
